---- MODULE Spec2Model ----
(***************************************************************************)
(* Model of the Express server of React-Starter (src/server/server.js):    *)
(* the JSONL validator, the multipart upload handlers and their temporary  *)
(* files, the streaming relay and the three append-only category logs.     *)
(***************************************************************************)
EXTENDS Integers, Sequences, FiniteSets, TLC

(***************************************************************************)
(* Bounds of the model.                                                    *)
(***************************************************************************)
MaxLen == 3
MaxInFlight == 2
MaxRequests == 3
MaxClock == 1
MaxChunks == 2
MaxStreams == 1

(***************************************************************************)
(* Program constant: the length limit of prompt and completion.            *)
(***************************************************************************)
MaxFieldLength == 4096

VARIABLES
    input,              \* validator run: the content of the file at filePath
    validationResult,   \* validator run: what validateJSONL returned
    pc,                 \* per request in flight: where its handler is suspended
    req,                \* per request: what the client sent (req.body, req.file(s))
    res,                \* per request: what has been written to the response
    obs,                \* per request: the calls its handler has made so far
    uploads,            \* the paths that exist in uploads/
    logs,               \* per category: the log file (exists, content)
    appended,           \* per category: the entries passed to appendFileSync
    last,               \* the request whose handler finished in the last step, if any
    now,                \* the clock read by new Date()
    served,             \* the number of requests received so far
    fileUpload,         \* browser: the state of the FileUpload component
    filePreview,        \* browser: the state of the FilePreview component
    download,           \* browser: the file handleExport last offered
    imageGenerator,     \* browser: the state of the ImageGenerator component
    net                 \* browser: the axios requests awaiting their response

vvars == <<input, validationResult>>
svars == <<pc, req, res, obs, last, uploads, logs, appended, now, served>>
cvars == <<fileUpload, filePreview, download, imageGenerator, net>>
vars == <<vvars, svars, cvars>>

(***************************************************************************)
(* JSON values as JSON.parse returns them.  A field value is abstracted to *)
(* its typeof and, for strings and arrays, its length (for a number: its   *)
(* value).                                                                 *)
(***************************************************************************)
Undefined == [t |-> "undefined", n |-> 0]
Str(len) == [t |-> "string", n |-> len]
Num(v) == [t |-> "number", n |-> v]
Arr(len) == [t |-> "array", n |-> len]

FieldVals ==
    {Undefined, Str(0), Str(1), Str(MaxFieldLength), Str(MaxFieldLength + 1),
     Num(123), Arr(MaxFieldLength + 1)}

\* JavaScript truthiness of a field value (the operand of ! and &&).
Truthy(v) ==
    CASE v.t = "undefined" -> FALSE
      [] v.t = "string" -> v.n > 0
      [] v.t = "number" -> v.n # 0
      [] OTHER -> TRUE

\* v.length > 4096: strings and arrays have a length, for anything else the
\* comparison undefined > 4096 is false.
LengthExceeds(v) == v.t \in {"string", "array"} /\ v.n > MaxFieldLength

(***************************************************************************)
(* The content of a file is a sequence of tokens: the line terminators LF  *)
(* and CR, and maximal runs of other characters ("text"), each run         *)
(* abstracted to what JSON.parse makes of it: a SyntaxError ("garbage"),   *)
(* null, a non-object value without fields ("scalar": number, string,      *)
(* boolean, array) or an object with its prompt and completion.            *)
(***************************************************************************)
Tok(k, p, c) == [k |-> k, prompt |-> p, completion |-> c]
LF == Tok("LF", Undefined, Undefined)
CR == Tok("CR", Undefined, Undefined)
Garbage == Tok("garbage", Undefined, Undefined)
JsonNull == Tok("null", Undefined, Undefined)
Scalar == Tok("scalar", Undefined, Undefined)
Obj(p, c) == Tok("object", p, c)

Objects ==
    {Obj(v, Str(1)) : v \in FieldVals} \cup {Obj(Str(1), v) : v \in FieldVals}
        \cup {Obj(Undefined, Undefined), Obj(Num(123), Undefined)}

Texts == {Garbage, JsonNull, Scalar} \cup Objects
Terminators == {LF, CR}
Tokens == Terminators \cup Texts

\* Two text runs are never adjacent: a text token is a maximal run.
RECURSIVE ContentsOfLen(_)
ContentsOfLen(n) ==
    IF n = 0 THEN {<<>>}
    ELSE {Append(s, t) : s \in ContentsOfLen(n - 1), t \in Terminators}
         \cup {Append(s, t) :
                 s \in {x \in ContentsOfLen(n - 1) :
                          Len(x) = 0 \/ x[Len(x)] \in Terminators},
                 t \in Texts}

Contents == UNION {ContentsOfLen(n) : n \in 0..MaxLen}

(***************************************************************************)
(* readline.createInterface({input, crlfDelay: Infinity}): the lines of    *)
(* the stream.  A line ends at LF, at CR LF (one ending) or at a lone CR;  *)
(* at the end of the stream a non-empty rest is one more line.             *)
(***************************************************************************)
\* Mutant: the rest is emitted even when empty, as content.split('\n') would.
AtCloseAlways(lines, buf) == Append(lines, buf)

\* The end of the stream: the buffered rest is emitted as a line when it is
\* not empty.
AtClose(lines, buf) == IF Len(buf) > 0 THEN Append(lines, buf) ELSE lines

RECURSIVE Scan(_, _, _, _, _)
Scan(content, i, buf, sawReturn, lines) ==
    IF i > Len(content) THEN AtClose(lines, buf)
    ELSE LET ch == content[i] IN
         CASE ch = LF /\ sawReturn -> Scan(content, i + 1, buf, FALSE, lines)
           [] ch = LF /\ ~sawReturn ->
                Scan(content, i + 1, <<>>, FALSE, Append(lines, buf))
           [] ch = CR -> Scan(content, i + 1, <<>>, TRUE, Append(lines, buf))
           [] OTHER -> Scan(content, i + 1, Append(buf, ch), FALSE, lines)

\* Mutant: the lines as content.split('\n') gives them for an empty file, one
\* empty line.
ReadLinesSplit(content) ==
    IF content = <<>> THEN << <<>> >> ELSE Scan(content, 1, <<>>, FALSE, <<>>)

ReadLines(content) == Scan(content, 1, <<>>, FALSE, <<>>)

(***************************************************************************)
(* validateJSONL                                                           *)
(***************************************************************************)
Err(n, text) == [line |-> n, text |-> text]

MsgPrompt == "Missing or invalid 'prompt' field"
MsgCompletion == "Missing or invalid 'completion' field"
MsgPromptLen == "Prompt exceeds maximum length of 4096 characters"
MsgCompletionLen == "Completion exceeds maximum length of 4096 characters"
MsgJson == "Invalid JSON format - "

\* JSON.parse(line): the empty line and a garbage run throw a SyntaxError.
JsonParses(line) == Len(line) = 1 /\ line[1].k # "garbage"

\* !parsed.prompt || typeof parsed.prompt !== 'string'
MissingOrInvalid(v) == ~Truthy(v) \/ v.t # "string"

\* parsed.prompt && parsed.prompt.length > 4096
TooLong(v) == Truthy(v) /\ LengthExceeds(v)

\* Mutant: a line that fails to parse also fails the field checks.
CheckLineUncaught(n, line) ==
    IF Len(line) = 1 /\ line[1].k = "object"
    THEN <<>>
    ELSE <<Err(n, MsgJson), Err(n, MsgPrompt), Err(n, MsgCompletion)>>

\* The body of the loop for one line: the errors it pushes.
CheckLine(n, line) ==
    IF ~JsonParses(line) THEN <<Err(n, MsgJson)>>
    ELSE IF line[1].k = "null" THEN <<Err(n, MsgJson)>>
    ELSE LET parsed == line[1] IN
         (IF MissingOrInvalid(parsed.prompt) THEN <<Err(n, MsgPrompt)>> ELSE <<>>)
         \o (IF MissingOrInvalid(parsed.completion)
             THEN <<Err(n, MsgCompletion)>> ELSE <<>>)
         \o (IF TooLong(parsed.prompt) THEN <<Err(n, MsgPromptLen)>> ELSE <<>>)
         \o (IF TooLong(parsed.completion)
             THEN <<Err(n, MsgCompletionLen)>> ELSE <<>>)

\* Mutant: each line's errors are put in front of the list (errors.unshift).
RECURSIVE ValidateLoopUnshift(_, _, _)
ValidateLoopUnshift(lines, lineNumber, errors) ==
    IF lineNumber = Len(lines)
    THEN [isValid |-> Len(errors) = 0, errors |-> errors, totalLines |-> lineNumber]
    ELSE ValidateLoopUnshift(lines, lineNumber + 1,
                             CheckLine(lineNumber + 1, lines[lineNumber + 1])
                                 \o errors)

RECURSIVE ValidateLoop(_, _, _)
ValidateLoop(lines, lineNumber, errors) ==
    IF lineNumber = Len(lines)
    THEN [isValid |-> Len(errors) = 0, errors |-> errors, totalLines |-> lineNumber]
    ELSE ValidateLoop(lines, lineNumber + 1,
                      errors \o CheckLine(lineNumber + 1, lines[lineNumber + 1]))

validateJSONL(content) == ValidateLoop(ReadLines(content), 0, <<>>)

NotRun == [isValid |-> FALSE, errors |-> <<>>, totalLines |-> 0 - 1]

(***************************************************************************)
(* The server: requests in flight, responses, files.                       *)
(***************************************************************************)
Slots == 1..MaxInFlight

Categories == {"generation", "edit", "variation"}

\* A string is a sequence of characters.  The characters that matter to the
\* log format are named: the newline, the space, the double quote and the
\* backslash.
NL == "NL"
SP == "SP"
QT == "QT"
BS == "BS"

\* req.body.prompt: undefined and "" are both falsy and both stand as <<>>.
NoPrompt == <<>>
Prompts == {<<"a", NL, QT, BS, SP>>}

\* The sample files a client uploads to /api/validate-jsonl and /api/upload.
ValidFile == <<Obj(Str(1), Str(1)), LF, Obj(Str(1), Str(MaxFieldLength))>>
InvalidFile == <<Obj(Str(1), Str(1)), LF, Obj(Num(123), Undefined), LF, Garbage>>
\* {"prompt":"a","completion":"b"}\n{"prompt":123}
ScenarioFile == <<Obj(Str(1), Str(1)), LF, Obj(Num(123), Undefined)>>
SampleFiles == {ValidFile, InvalidFile, ScenarioFile}

\* req.body.purpose: "" when the field is unset.
Purposes == {"", "assistants"}

\* The upstream API's answer to an image call, spread into the log entry.
Responses == {"url1"}

\* The content fragments of the chunks of an upstream completion stream; ""
\* is a chunk without content.
Fragments == {"", "x", "y"}
DONE == "[DONE]"

\* uploads/<filename>: the name multer gives the file of field f of the
\* request with number id.
Path(id, f) == <<id, f>>

Request(id, ep, prompt, files, content, purpose) ==
    [id |-> id, ep |-> ep, prompt |-> prompt, files |-> files,
     content |-> content, purpose |-> purpose]

NoRequest == Request(0, "none", NoPrompt, {}, <<>>, "")

\* A response: status 0 until the status line is written.
NoResponse ==
    [status |-> 0, error |-> "", details |-> <<>>, totalLines |-> 0 - 1,
     entries |-> <<>>, events |-> <<>>, headersSent |-> FALSE, ended |-> FALSE]

\* res.status(status).json(body)
Json(status, error, details, totalLines, entries) ==
    [status |-> status, error |-> error, details |-> details,
     totalLines |-> totalLines, entries |-> entries, events |-> <<>>,
     headersSent |-> TRUE, ended |-> TRUE]

JsonError(status, error) == Json(status, error, <<>>, 0 - 1, <<>>)
JsonOk == Json(200, "", <<>>, 0 - 1, <<>>)

\* What a handler has done so far: unlinkSync calls, upstream calls and
\* their outcome, appendFileSync calls, the purpose sent upstream, the chunks
\* received from the upstream stream.
NoCalls ==
    [unlinks |-> 0, calls |-> 0, upstream |-> "none", appends |-> 0,
     purpose |-> "", received |-> <<>>]

NoLog == [exists |-> FALSE, content |-> <<>>]

\* A handler that has finished: "done" when it returned after sending the
\* response, "rejected" when an exception escaped it.
Finished == {"done", "rejected"}

Ended(q, response, calls, at) ==
    [req |-> q, res |-> response, obs |-> calls, at |-> at]

\* No handler finished in the step.
NoneEnded == Ended(NoRequest, NoResponse, NoCalls, "none")

InitServer ==
    /\ pc = [r \in Slots |-> "idle"]
    /\ req = [r \in Slots |-> NoRequest]
    /\ res = [r \in Slots |-> NoResponse]
    /\ obs = [r \in Slots |-> NoCalls]
    /\ last = NoneEnded
    /\ uploads = {}
    /\ logs = [c \in Categories |-> NoLog]
    /\ appended = [c \in Categories |-> <<>>]
    /\ now = 0
    /\ served = 0

\* Mutant: multer's memoryStorage, which writes nothing to uploads/.
MemoryStorage(id, files) == uploads

\* multer's diskStorage: the files of the request are written to uploads/
\* before the handler runs.
Multer(id, files) == uploads \cup {Path(id, f) : f \in files}

\* A request q arrives and its handler runs to the first await, where it is
\* suspended in slot r at `at`, or to its end (it then takes no slot, and r
\* is the first one).
Enter(r, q, at, response, calls) ==
    /\ served < MaxRequests
    /\ served' = served + 1
    /\ IF at \in Finished
       THEN /\ r = 1
            /\ last' = Ended(q, response, calls, at)
            /\ UNCHANGED <<pc, req, res, obs>>
       ELSE /\ pc[r] = "idle"
            /\ pc' = [pc EXCEPT ![r] = at]
            /\ req' = [req EXCEPT ![r] = q]
            /\ res' = [res EXCEPT ![r] = response]
            /\ obs' = [obs EXCEPT ![r] = calls]
            /\ last' = NoneEnded

\* The handler suspended in slot r resumes and runs to the next await or to
\* its end.
Resume(r, at, response, calls) ==
    /\ IF at \in Finished
       THEN /\ last' = Ended(req[r], response, calls, at)
            /\ pc' = [pc EXCEPT ![r] = "idle"]
            /\ req' = [req EXCEPT ![r] = NoRequest]
            /\ res' = [res EXCEPT ![r] = NoResponse]
            /\ obs' = [obs EXCEPT ![r] = NoCalls]
       ELSE /\ pc' = [pc EXCEPT ![r] = at]
            /\ res' = [res EXCEPT ![r] = response]
            /\ obs' = [obs EXCEPT ![r] = calls]
            /\ last' = NoneEnded
            /\ UNCHANGED req
    /\ UNCHANGED served

Called(calls) == [calls EXCEPT !.calls = @ + 1, !.upstream = "pending"]

\* Mutant: the handler goes on without a prompt.
PromptNotRequired(prompt) == FALSE

\* !prompt: the prompt is undefined or empty.
PromptMissing(prompt) == prompt = NoPrompt

(***************************************************************************)
(* The category logs: JSON.stringify(entry) + '\n' appended to the file,   *)
(* and read back by readFileSync().split('\n').filter().map(JSON.parse).   *)
(* The bytes of a line are characters, with each key and its colon and     *)
(* each response value written as one unit that holds no newline.          *)
(***************************************************************************)
\* new Date().toISOString() at clock value t.
Digits == <<"0", "1", "2", "3", "4", "5", "6", "7", "8", "9">>
ToISOString(t) == <<Digits[t + 1]>>

\* file.filename of an uploaded image.
Filename(id, f) == <<f, Digits[id + 1]>>

\* A log entry; a key whose value is undefined (or that the entry does not
\* have) holds <<>> and is left out by JSON.stringify.
Entry(timestamp, prompt, originalImage, mask, response) ==
    [timestamp |-> timestamp, prompt |-> prompt, originalImage |-> originalImage,
     mask |-> mask, response |-> response]

\* Mutant: a string written between quotes as it is.
EscapeNothing(ch) == <<ch>>

\* JSON.stringify of one character of a string.
Escape(ch) ==
    CASE ch = NL -> <<BS, "n">>
      [] ch = QT -> <<BS, QT>>
      [] ch = BS -> <<BS, BS>>
      [] OTHER -> <<ch>>

RECURSIVE EscapeAll(_)
EscapeAll(str) ==
    IF str = <<>> THEN <<>> ELSE Escape(Head(str)) \o EscapeAll(Tail(str))

Quote(str) == <<QT>> \o EscapeAll(str) \o <<QT>>

Member(key, str) == IF str = <<>> THEN <<>> ELSE <<",", key>> \o Quote(str)

\* JSON.stringify(entry)
Stringify(e) ==
    <<"{", "timestamp:">> \o Quote(e.timestamp)
        \o Member("prompt:", e.prompt)
        \o Member("originalImage:", e.originalImage)
        \o Member("mask:", e.mask)
        \o <<",", "data:", e.response, "}">>

\* Mutant: the line is written without its newline.
LogLineNoNewline(e) == Stringify(e)

\* JSON.stringify(entry) + '\n'
LogLine(e) == Stringify(e) \o <<NL>>

\* Mutant: the file is written anew, as fs.writeFileSync does.
WriteFileSync(log, data) == [exists |-> TRUE, content |-> data]

\* fs.appendFileSync(path, data): creates the file when it is absent.
AppendFileSync(log, data) == [exists |-> TRUE, content |-> log.content \o data]

\* JSON.parse of a string literal starting after its opening quote at i:
\* the string and the position after the closing quote, or a failure.
ParseFail == [ok |-> FALSE, val |-> <<>>, next |-> 0]

RECURSIVE ReadString(_, _, _)
ReadString(s, i, acc) ==
    IF i > Len(s) THEN ParseFail
    ELSE CASE s[i] = QT -> [ok |-> TRUE, val |-> acc, next |-> i + 1]
           [] s[i] = NL -> ParseFail
           [] s[i] = BS ->
                IF i + 1 > Len(s) THEN ParseFail
                ELSE CASE s[i + 1] = "n" -> ReadString(s, i + 2, Append(acc, NL))
                       [] s[i + 1] = QT -> ReadString(s, i + 2, Append(acc, QT))
                       [] s[i + 1] = BS -> ReadString(s, i + 2, Append(acc, BS))
                       [] OTHER -> ParseFail
           [] OTHER -> ReadString(s, i + 1, Append(acc, s[i]))

ParseString(s, i) ==
    IF i <= Len(s) /\ s[i] = QT THEN ReadString(s, i + 1, <<>>) ELSE ParseFail

\* An optional member `,key"..."` at i: its value and the position after it,
\* or <<>> and i when the next member is another one.
ParseMember(s, i, key) ==
    IF i + 1 <= Len(s) /\ s[i] = "," /\ s[i + 1] = key
    THEN ParseString(s, i + 2)
    ELSE [ok |-> TRUE, val |-> <<>>, next |-> i]

NoEntry == Entry(<<>>, <<>>, <<>>, <<>>, "")

\* JSON.parse(line) for a line of a log: the entry, or a SyntaxError.
JsonParseEntry(s) ==
    IF ~(Len(s) >= 2 /\ s[1] = "{" /\ s[2] = "timestamp:")
    THEN [ok |-> FALSE, val |-> NoEntry]
    ELSE LET ts == ParseString(s, 3)
             pr == IF ts.ok THEN ParseMember(s, ts.next, "prompt:") ELSE ParseFail
             im == IF pr.ok THEN ParseMember(s, pr.next, "originalImage:")
                   ELSE ParseFail
             mk == IF im.ok THEN ParseMember(s, im.next, "mask:") ELSE ParseFail
             i == mk.next
         IN  IF /\ mk.ok
                /\ Len(s) = i + 3
                /\ s[i] = ","
                /\ s[i + 1] = "data:"
                /\ s[i + 2] \in Responses
                /\ s[i + 3] = "}"
             THEN [ok |-> TRUE,
                   val |-> Entry(ts.val, pr.val, im.val, mk.val, s[i + 2])]
             ELSE [ok |-> FALSE, val |-> NoEntry]

\* content.split('\n'): the pieces between newlines, the last one included
\* when empty.  The piece being read starts at `from`.
RECURSIVE Split(_, _, _)
Split(content, i, from) ==
    IF i > Len(content) THEN <<SubSeq(content, from, Len(content))>>
    ELSE IF content[i] = NL
    THEN <<SubSeq(content, from, i - 1)>> \o Split(content, i + 1, i + 1)
    ELSE Split(content, i + 1, from)

\* line.trim() is truthy: the line has a character that is not white space.
NonBlank(line) == \E i \in 1..Len(line) : line[i] # SP

\* Mutant: the entries are returned in the order of the file.
AsStored(s) == s

Reverse(s) == [i \in 1..Len(s) |-> s[Len(s) + 1 - i]]

\* Mutant: the file is read without the existsSync test; readFileSync of an
\* absent file throws.
ExistsAlways(log) == TRUE

\* fs.existsSync(logPath)
ExistsSync(log) == log.exists

\* Mutant: a listing that skips the lines it cannot parse, as the validator
\* goes on after a bad line.
ListAllSkipBad(log) ==
    IF ~log.exists THEN [status |-> 200, entries |-> <<>>]
    ELSE LET lines == SelectSeq(Split(log.content, 1, 1), NonBlank)
             good == SelectSeq(lines, LAMBDA line : JsonParseEntry(line).ok)
         IN  [status |-> 200,
              entries |-> Reverse([i \in 1..Len(good) |-> JsonParseEntry(good[i]).val])]

\* The body of GET /api/images, /api/image-edits, /api/image-variations:
\* the status and the entries of the response.
ListAll(log) ==
    IF ~ExistsSync(log) THEN [status |-> 200, entries |-> <<>>]
    ELSE IF ~log.exists THEN [status |-> 500, entries |-> <<>>]
    ELSE LET lines == SelectSeq(Split(log.content, 1, 1), NonBlank)
             parsed == [i \in 1..Len(lines) |-> JsonParseEntry(lines[i])]
         IN  IF \E i \in 1..Len(lines) : ~parsed[i].ok
             THEN [status |-> 500, entries |-> <<>>]
             ELSE [status |-> 200,
                   entries |-> Reverse([i \in 1..Len(lines) |-> parsed[i].val])]

(***************************************************************************)
(* Temporary files of multipart uploads.                                   *)
(***************************************************************************)
\* Mutant: a catch block that leaves the file.
CatchKeep(files, p) == files

\* if (req.file && fs.existsSync(req.file.path)) fs.unlinkSync(req.file.path)
CatchUnlink(files, p) == IF p \in files THEN files \ {p} ELSE files

Unlinked(calls, n) == [calls EXCEPT !.unlinks = @ + n]

FilePath(r) == Path(req[r].id, "file")

\* The catch block of /api/validate-jsonl and /api/upload.
CatchFile(r, error, calls) ==
    /\ uploads' = CatchUnlink(uploads, FilePath(r))
    /\ Resume(r, "done", JsonError(500, error),
              Unlinked(calls, IF FilePath(r) \in uploads THEN 1 ELSE 0))

(***************************************************************************)
(* POST /api/validate-jsonl                                                *)
(***************************************************************************)
PostValidateJsonl(r, hasFile, content) ==
    /\ LET id == served + 1
           q == Request(id, "POST /api/validate-jsonl", NoPrompt,
                        IF hasFile THEN {"file"} ELSE {}, content, "")
       IN  IF ~hasFile
           THEN /\ Enter(r, q, "done", JsonError(400, "No file uploaded"), NoCalls)
                /\ UNCHANGED uploads
           ELSE /\ uploads' = Multer(id, {"file"})
                /\ Enter(r, q, "validating", NoResponse, NoCalls)
    /\ UNCHANGED <<vvars, cvars, logs, appended, now>>

ValidateJsonlReturned(r) ==
    /\ pc[r] = "validating"
    /\ req[r].ep = "POST /api/validate-jsonl"
    /\ LET result == validateJSONL(req[r].content) IN
       IF FilePath(r) \notin uploads
       THEN CatchFile(r, "Validation failed", obs[r])
       ELSE /\ uploads' = uploads \ {FilePath(r)}
            /\ Resume(r, "done",
                      IF ~result.isValid
                      THEN Json(400, "Invalid JSONL format", result.errors,
                                result.totalLines, <<>>)
                      ELSE Json(200, "", <<>>, result.totalLines, <<>>),
                      Unlinked(obs[r], 1))
    /\ UNCHANGED <<vvars, cvars, logs, appended, now>>

(***************************************************************************)
(* POST /api/upload                                                        *)
(***************************************************************************)
\* Mutant: the file is forwarded whatever the validator said.
ValidAlways(result) == TRUE

\* !validationResult.isValid is false: the upload goes on.
PassesGate(result) == result.isValid

\* Mutant: the purpose is forwarded as the request carries it.
PurposeAsSent(purpose) == purpose

\* req.body.purpose || 'fine-tune'
PurposeOf(purpose) == IF purpose = "" THEN "fine-tune" ELSE purpose

PostUpload(r, hasFile, content, purpose) ==
    /\ LET id == served + 1
           q == Request(id, "POST /api/upload", NoPrompt,
                        IF hasFile THEN {"file"} ELSE {}, content, purpose)
       IN  IF ~hasFile
           THEN /\ Enter(r, q, "done", JsonError(400, "No file uploaded"), NoCalls)
                /\ UNCHANGED uploads
           ELSE /\ uploads' = Multer(id, {"file"})
                /\ Enter(r, q, "validating", NoResponse, NoCalls)
    /\ UNCHANGED <<vvars, cvars, logs, appended, now>>

UploadValidated(r) ==
    /\ pc[r] = "validating"
    /\ req[r].ep = "POST /api/upload"
    /\ LET result == validateJSONL(req[r].content) IN
       IF FilePath(r) \notin uploads
       THEN CatchFile(r, "Failed to upload file", obs[r])
       ELSE IF ~PassesGate(result)
       THEN /\ uploads' = uploads \ {FilePath(r)}
            /\ Resume(r, "done",
                      Json(400, "Invalid JSONL format", result.errors, 0 - 1, <<>>),
                      Unlinked(obs[r], 1))
       ELSE /\ Resume(r, "calling", NoResponse,
                      [Called(obs[r]) EXCEPT !.purpose = PurposeOf(req[r].purpose)])
            /\ UNCHANGED uploads
    /\ UNCHANGED <<vvars, cvars, logs, appended, now>>

UploadReturned(r, ok) ==
    /\ pc[r] = "calling"
    /\ req[r].ep = "POST /api/upload"
    /\ IF ok
       THEN LET calls == [Unlinked(obs[r], 1) EXCEPT !.upstream = "ok"] IN
            IF FilePath(r) \in uploads
            THEN /\ uploads' = uploads \ {FilePath(r)}
                 /\ Resume(r, "done",
                           Json(200, "", <<>>,
                                validateJSONL(req[r].content).totalLines, <<>>),
                           calls)
            ELSE CatchFile(r, "Failed to upload file", calls)
       ELSE CatchFile(r, "Failed to upload file",
                      [obs[r] EXCEPT !.upstream = "failed"])
    /\ UNCHANGED <<vvars, cvars, logs, appended, now>>

(***************************************************************************)
(* Appending to a category log.                                            *)
(***************************************************************************)
\* Mutant: every category appends to the one file image_generations.jsonl.
AppendEntryShared(c, e) ==
    /\ logs' = [logs EXCEPT !["generation"] = AppendFileSync(@, LogLine(e))]
    /\ appended' = [appended EXCEPT !["generation"] = Append(@, e)]

AppendEntry(c, e) ==
    /\ logs' = [logs EXCEPT ![c] = AppendFileSync(@, LogLine(e))]
    /\ appended' = [appended EXCEPT ![c] = Append(@, e)]

\* Mutant: the entry is also written when the upstream call failed.
LogsOnFailure(ok) == TRUE

\* The append is reached only when the awaited upstream call did not throw.
ReachesAppend(ok) == ok

Returned(calls, ok) ==
    [calls EXCEPT !.upstream = IF ok THEN "ok" ELSE "failed",
                  !.appends = @ + (IF ReachesAppend(ok) THEN 1 ELSE 0)]

(***************************************************************************)
(* POST /api/generate-image                                                *)
(***************************************************************************)
PostGenerateImage(r, prompt) ==
    /\ LET q == Request(served + 1, "POST /api/generate-image", prompt, {}, <<>>, "")
       IN  IF PromptMissing(prompt)
           THEN Enter(r, q, "done", JsonError(400, "Prompt is required"), NoCalls)
           ELSE Enter(r, q, "calling", NoResponse, Called(NoCalls))
    /\ UNCHANGED <<vvars, cvars, uploads, logs, appended, now>>

GenerateImageReturned(r, ok, response) ==
    /\ pc[r] = "calling"
    /\ req[r].ep = "POST /api/generate-image"
    /\ IF ReachesAppend(ok)
       THEN AppendEntry("generation",
                        Entry(ToISOString(now), req[r].prompt, <<>>, <<>>, response))
       ELSE UNCHANGED <<logs, appended>>
    /\ Resume(r, "done",
              IF ok THEN JsonOk ELSE JsonError(500, "Failed to generate image"),
              Returned(obs[r], ok))
    /\ UNCHANGED <<vvars, cvars, uploads, now>>

(***************************************************************************)
(* POST /api/edit-image                                                    *)
(***************************************************************************)
PostEditImage(r, prompt, files) ==
    /\ LET id == served + 1
           q == Request(id, "POST /api/edit-image", prompt, files, <<>>, "")
       IN  /\ uploads' = Multer(id, files)
           /\ IF PromptMissing(prompt)
              THEN Enter(r, q, "done", JsonError(400, "Prompt is required"), NoCalls)
              ELSE IF "image" \notin files
              THEN Enter(r, q, "done", JsonError(400, "Image is required"), NoCalls)
              ELSE Enter(r, q, "calling", NoResponse, Called(NoCalls))
    /\ UNCHANGED <<vvars, cvars, logs, appended, now>>

EditImageReturned(r, ok, response) ==
    /\ pc[r] = "calling"
    /\ req[r].ep = "POST /api/edit-image"
    /\ LET id == req[r].id
           hasMask == "mask" \in req[r].files
           mine == {Path(id, f) : f \in req[r].files}
       IN  IF ReachesAppend(ok)
           THEN /\ AppendEntry("edit",
                               Entry(ToISOString(now), req[r].prompt,
                                     Filename(id, "image"),
                                     IF hasMask THEN Filename(id, "mask") ELSE <<>>,
                                     response))
                /\ IF ok
                   THEN /\ uploads' = uploads \ mine
                        /\ Resume(r, "done", JsonOk,
                                  Unlinked(Returned(obs[r], ok), Cardinality(mine)))
                   ELSE /\ UNCHANGED uploads
                        /\ Resume(r, "done", JsonError(500, "Failed to edit image"),
                                  Returned(obs[r], ok))
           ELSE /\ UNCHANGED <<uploads, logs, appended>>
                /\ Resume(r, "done", JsonError(500, "Failed to edit image"),
                          Returned(obs[r], ok))
    /\ UNCHANGED <<vvars, cvars, now>>

(***************************************************************************)
(* POST /api/image-variations                                              *)
(***************************************************************************)
PostImageVariations(r, hasFile) ==
    /\ LET id == served + 1
           q == Request(id, "POST /api/image-variations", NoPrompt,
                        IF hasFile THEN {"image"} ELSE {}, <<>>, "")
       IN  IF ~hasFile
           THEN /\ Enter(r, q, "done", JsonError(400, "Image is required"), NoCalls)
                /\ UNCHANGED uploads
           ELSE /\ uploads' = Multer(id, {"image"})
                /\ Enter(r, q, "calling", NoResponse, Called(NoCalls))
    /\ UNCHANGED <<vvars, cvars, logs, appended, now>>

ImageVariationsReturned(r, ok, response) ==
    /\ pc[r] = "calling"
    /\ req[r].ep = "POST /api/image-variations"
    /\ LET id == req[r].id IN
       IF ReachesAppend(ok)
       THEN /\ AppendEntry("variation",
                           Entry(ToISOString(now), <<>>, Filename(id, "image"),
                                 <<>>, response))
            /\ IF ok
               THEN /\ uploads' = uploads \ {Path(id, "image")}
                    /\ Resume(r, "done", JsonOk, Unlinked(Returned(obs[r], ok), 1))
               ELSE /\ UNCHANGED uploads
                    /\ Resume(r, "done",
                              JsonError(500, "Failed to generate variations"),
                              Returned(obs[r], ok))
       ELSE /\ UNCHANGED <<uploads, logs, appended>>
            /\ Resume(r, "done", JsonError(500, "Failed to generate variations"),
                      Returned(obs[r], ok))
    /\ UNCHANGED <<vvars, cvars, now>>

(***************************************************************************)
(* GET /api/images, /api/image-edits, /api/image-variations                *)
(***************************************************************************)
GetList(r, ep, c) ==
    /\ LET listed == ListAll(logs[c]) IN
       Enter(r, Request(served + 1, ep, NoPrompt, {}, <<>>, ""), "done",
             IF listed.status = 200
             THEN Json(200, "", <<>>, 0 - 1, listed.entries)
             ELSE JsonError(500, "Failed to fetch"),
             NoCalls)
    /\ UNCHANGED <<vvars, cvars, uploads, logs, appended, now>>

GetImages(r) == GetList(r, "GET /api/images", "generation")
GetImageEdits(r) == GetList(r, "GET /api/image-edits", "edit")
GetImageVariations(r) == GetList(r, "GET /api/image-variations", "variation")

\* Time passes.
Tick ==
    /\ now < MaxClock
    /\ now' = now + 1
    /\ last' = NoneEnded
    /\ UNCHANGED <<vvars, cvars, pc, req, res, obs, uploads, logs, appended, served>>

(***************************************************************************)
(* POST /api/generate/stream                                               *)
(***************************************************************************)
PostGenerateStream(r, prompt) ==
    /\ LET q == Request(served + 1, "POST /api/generate/stream", prompt, {}, <<>>, "")
       IN  IF PromptMissing(prompt)
           THEN Enter(r, q, "done", JsonError(400, "Prompt is required"), NoCalls)
           ELSE Enter(r, q, "calling", NoResponse, Called(NoCalls))
    /\ UNCHANGED <<vvars, cvars, uploads, logs, appended, now>>

\* res.status(500).json(...) once the headers are sent: res.json throws
\* ERR_HTTP_HEADERS_SENT inside the catch block, nothing more is written and
\* the promise of the handler rejects.
JsonAfterHeaders(response) == [at |-> "rejected", response |-> response]

\* The catch block of the streaming handler.
StreamCatch(r, calls) ==
    IF res[r].headersSent
    THEN Resume(r, JsonAfterHeaders(res[r]).at, JsonAfterHeaders(res[r]).response,
                calls)
    ELSE Resume(r, "done", JsonError(500, "Failed to generate response"), calls)

\* await openai.chat.completions.create({..., stream: true}) settles.
StreamOpened(r, ok) ==
    /\ pc[r] = "calling"
    /\ req[r].ep = "POST /api/generate/stream"
    /\ IF ok
       THEN Resume(r, "streaming", res[r], [obs[r] EXCEPT !.upstream = "open"])
       ELSE StreamCatch(r, [obs[r] EXCEPT !.upstream = "failed"])
    /\ UNCHANGED <<vvars, cvars, uploads, logs, appended, now>>

\* Mutant: the event is put in front of what was written.
WriteInFront(response, event) ==
    [response EXCEPT !.status = 200, !.headersSent = TRUE,
                     !.events = <<event>> \o @]

\* res.write(`data: ${JSON.stringify({ content })}\n\n`): the first write
\* sends the headers with status 200.
Write(response, event) ==
    [response EXCEPT !.status = 200, !.headersSent = TRUE,
                     !.events = Append(@, event)]

\* One iteration of for await (const chunk of stream).
StreamChunk(r, content) ==
    /\ pc[r] = "streaming"
    /\ Len(obs[r].received) < MaxChunks
    /\ Resume(r, "streaming",
              IF content # "" THEN Write(res[r], content) ELSE res[r],
              [obs[r] EXCEPT !.received = Append(@, content)])
    /\ UNCHANGED <<vvars, cvars, uploads, logs, appended, now>>

\* The upstream stream completes: res.write('data: [DONE]\n\n'); res.end().
StreamEnd(r) ==
    /\ pc[r] = "streaming"
    /\ Resume(r, "done", [Write(res[r], DONE) EXCEPT !.ended = TRUE],
              [obs[r] EXCEPT !.upstream = "ok"])
    /\ UNCHANGED <<vvars, cvars, uploads, logs, appended, now>>

\* The iteration over the upstream stream throws.
StreamFailed(r) ==
    /\ pc[r] = "streaming"
    /\ StreamCatch(r, [obs[r] EXCEPT !.upstream = "failed"])
    /\ UNCHANGED <<vvars, cvars, uploads, logs, appended, now>>

(***************************************************************************)
(* POST /api/generate                                                      *)
(***************************************************************************)
PostGenerate(r, prompt) ==
    /\ LET q == Request(served + 1, "POST /api/generate", prompt, {}, <<>>, "")
       IN  IF PromptMissing(prompt)
           THEN Enter(r, q, "done", JsonError(400, "Prompt is required"), NoCalls)
           ELSE Enter(r, q, "calling", NoResponse, Called(NoCalls))
    /\ UNCHANGED <<vvars, cvars, uploads, logs, appended, now>>

\* await openai.chat.completions.create(...) settles; reading
\* completion.choices[0].message.content of an answer without choices throws
\* like a failed call.
GenerateReturned(r, ok) ==
    /\ pc[r] = "calling"
    /\ req[r].ep = "POST /api/generate"
    /\ Resume(r, "done",
              IF ok THEN JsonOk ELSE JsonError(500, "Failed to generate response"),
              [obs[r] EXCEPT !.upstream = IF ok THEN "ok" ELSE "failed"])
    /\ UNCHANGED <<vvars, cvars, uploads, logs, appended, now>>

(***************************************************************************)
(* The browser: the React components FileUpload (part_002), FilePreview    *)
(* (part_001) and ImageGenerator (part_000).  Each component is the record *)
(* of its useState values; a string is the sequence of its tokens, "" the  *)
(* empty sequence.                                                         *)
(***************************************************************************)
\* useState<string | null>: null, or a string.
Null == [isNull |-> TRUE, text |-> <<>>]
Text(str) == [isNull |-> FALSE, text |-> str]

\* if (editedContent): neither null nor "".
TruthyText(t) == ~t.isNull /\ t.text # <<>>

\* useState<File | null>
NoFile == [present |-> FALSE, name |-> "", content |-> <<>>]
File(name, content) == [present |-> TRUE, name |-> name, content |-> content]

\* useState<ValidationError | null>: null, or the body of a failed response;
\* `sent` remembers the content of the request the response answered.
NoError == [isNull |-> TRUE, error |-> "", details |-> <<>>, sent |-> <<>>]
ValidationError(error, details, sent) ==
    [isNull |-> FALSE, error |-> error, details |-> details, sent |-> sent]

\* FileUpload(): the initial useState values.
InitFileUpload ==
    [file |-> NoFile, editedContent |-> Null, isValidating |-> FALSE,
     isUploading |-> FALSE, validationError |-> NoError, uploadResponse |-> FALSE]

\* FilePreview(): the initial useState values; open is the Dialog's state.
InitFilePreview ==
    [open |-> FALSE, rawContent |-> <<>>, editedContent |-> <<>>,
     previousContent |-> <<>>, isEditing |-> FALSE]

\* What handleExport handed to the browser: the format, the text of the blob
\* (jsonl, txt), the text of the CSV, the rows of the Excel sheet.
Download(format, content, csv, sheet) ==
    [format |-> format, content |-> content, csv |-> csv, sheet |-> sheet]

NoDownload == Download("none", <<>>, <<>>, <<>>)

\* useState<GeneratedImage[]>: a list, or the undefined a handler put there.
List(items) == [defined |-> TRUE, items |-> items]
UndefinedList == [defined |-> FALSE, items |-> <<>>]

\* ImageGenerator(): the initial useState values.
InitImageGenerator ==
    [prompt |-> <<>>, selectedImage |-> FALSE, selectedMask |-> FALSE,
     isLoading |-> FALSE, error |-> "", generatedImages |-> List(<<>>),
     imageEdits |-> List(<<>>), variations |-> List(<<>>)]

InitClient ==
    /\ fileUpload = InitFileUpload
    /\ filePreview = InitFilePreview
    /\ download = NoDownload
    /\ imageGenerator = InitImageGenerator
    /\ net = {}

(***************************************************************************)
(* FilePreview.handleExport.  The content is a sequence of tokens as for   *)
(* the validator; here CR stands for any white space inside a line (trim   *)
(* removes it, JSON.parse skips it around a value) and a string field      *)
(* keeps its characters, which the CSV writer has to quote.                *)
(***************************************************************************)
\* A string value of a parsed line, with its characters.
Chars(str) == [t |-> "string", n |-> Len(str), chars |-> str]

CellValues ==
    {Undefined, Num(123), Chars(<<>>), Chars(<<"a">>), Chars(<<SP, "a", ",", QT, NL>>)}

ExportObjects ==
    {Obj(v, Chars(<<"b">>)) : v \in CellValues}
        \cup {Obj(Chars(<<"a">>), v) : v \in CellValues}

ExportTexts == {Garbage, JsonNull, Scalar} \cup ExportObjects

RECURSIVE ExportContentsOfLen(_)
ExportContentsOfLen(n) ==
    IF n = 0 THEN {<<>>}
    ELSE {Append(s, t) : s \in ExportContentsOfLen(n - 1), t \in Terminators}
         \cup {Append(s, t) :
                 s \in {x \in ExportContentsOfLen(n - 1) :
                          Len(x) = 0 \/ x[Len(x)] \in Terminators},
                 t \in ExportTexts}

ExportContents == UNION {ExportContentsOfLen(n) : n \in 0..MaxLen}

\* content.split('\n')
RECURSIVE SplitLines(_, _, _)
SplitLines(content, i, from) ==
    IF i > Len(content) THEN <<SubSeq(content, from, Len(content))>>
    ELSE IF content[i] = LF
    THEN <<SubSeq(content, from, i - 1)>> \o SplitLines(content, i + 1, i + 1)
    ELSE SplitLines(content, i + 1, from)

\* line.trim() is truthy
TrimIsTruthy(line) == \E i \in 1..Len(line) : line[i] # CR

\* JSON.parse(line): the value of the one text of the line, white space
\* around it skipped; a SyntaxError for garbage and for two values.
ParseLine(line) ==
    LET texts == SelectSeq(line, LAMBDA t : t # CR)
    IN  IF Len(texts) = 1 /\ texts[1].k # "garbage"
        THEN [ok |-> TRUE, val |-> texts[1]]
        ELSE [ok |-> FALSE, val |-> Garbage]

InvalidJSON == Chars(<<"Invalid", SP, "JSON">>)

\* The callback of .map: { prompt, completion } of the parsed line, or the
\* sentinel pair when JSON.parse throws or the value is null (destructuring
\* null throws).
ExportRow(line) ==
    LET parsed == ParseLine(line)
    IN  IF ~parsed.ok \/ parsed.val.k = "null"
        THEN [prompt |-> InvalidJSON, completion |-> InvalidJSON]
        ELSE [prompt |-> parsed.val.prompt, completion |-> parsed.val.completion]

\* content.split('\n').filter(line => line.trim()).map(...)
ExportRows(content) ==
    LET lines == SelectSeq(SplitLines(content, 1, 1), TrimIsTruthy)
    IN  [i \in 1..Len(lines) |-> ExportRow(lines[i])]

\* The characters Papa.unparse writes for a value: nothing for undefined,
\* the digits of a number, the characters of a string.
CsvValue(v) ==
    CASE v.t = "undefined" -> <<>>
      [] v.t = "number" -> <<"123">>
      [] OTHER -> v.chars

\* The line break between the records of the CSV.
CRLF == "CRLF"

\* Papa quotes a field that holds the delimiter, a quote or a line break,
\* or that starts or ends with a space.
NeedsQuotes(str) ==
    \/ \E i \in 1..Len(str) : str[i] \in {",", QT, NL, CRLF}
    \/ Len(str) > 0 /\ (str[1] = SP \/ str[Len(str)] = SP)

\* Mutant: fields are written without quotes.
CsvFieldBare(v) == CsvValue(v)

RECURSIVE DoubleQuotes(_)
DoubleQuotes(str) ==
    IF str = <<>> THEN <<>>
    ELSE (IF Head(str) = QT THEN <<QT, QT>> ELSE <<Head(str)>>)
             \o DoubleQuotes(Tail(str))

CsvField(v) ==
    IF NeedsQuotes(CsvValue(v))
    THEN <<QT>> \o DoubleQuotes(CsvValue(v)) \o <<QT>>
    ELSE CsvValue(v)

RECURSIVE CsvRecords(_)
CsvRecords(rows) ==
    IF rows = <<>> THEN <<>>
    ELSE <<CRLF>> \o CsvField(Head(rows).prompt) \o <<",">>
             \o CsvField(Head(rows).completion) \o CsvRecords(Tail(rows))

\* Papa.unparse(csvRows): the keys of the first row as header, then one
\* record per row; the empty string for no rows.
Unparse(rows) ==
    IF rows = <<>> THEN <<>>
    ELSE <<"prompt", ",", "completion">> \o CsvRecords(rows)

\* XLSX.utils.json_to_sheet(rows): the header cells, then one row of cells
\* per row of the data.
JsonToSheet(rows) ==
    IF rows = <<>> THEN <<>>
    ELSE << <<Chars(<<"Prompt">>), Chars(<<"Completion">>)>> >>
             \o [i \in 1..Len(rows) |-> <<rows[i].prompt, rows[i].completion>>]

ExportFormats == {"jsonl", "csv", "excel", "txt"}

\* const content = editedContent || rawContent
ExportSource(preview) ==
    IF preview.editedContent # <<>> THEN preview.editedContent
    ELSE preview.rawContent

handleExport(format) ==
    /\ filePreview.open
    /\ download' =
          LET content == ExportSource(filePreview) IN
          CASE format = "csv" ->
                   Download("csv", <<>>, Unparse(ExportRows(content)), <<>>)
            [] format = "excel" ->
                   Download("excel", <<>>, <<>>, JsonToSheet(ExportRows(content)))
            [] OTHER -> Download(format, content, <<>>, <<>>)
    /\ UNCHANGED <<vvars, svars, fileUpload, filePreview, imageGenerator, net>>

\* The dialog has just read a file of any content (readFileContent); the
\* user may since have put other text in the editor, or emptied it.
EditedSample == <<Obj(Chars(<<"a">>), Chars(<<"b">>)), LF, Garbage, LF>>

InitExport ==
    /\ input = <<>>
    /\ validationResult = NotRun
    /\ InitServer
    /\ \E content \in ExportContents : \E edited \in {content, <<>>, EditedSample} :
          /\ fileUpload = [InitFileUpload EXCEPT !.file = File("data.jsonl", content)]
          /\ filePreview =
                [open |-> TRUE, rawContent |-> content, editedContent |-> edited,
                 previousContent |-> content, isEditing |-> edited # content]
    /\ download = NoDownload
    /\ imageGenerator = InitImageGenerator
    /\ net = {}

NextExport == \E format \in ExportFormats : handleExport(format)

SpecExport == InitExport /\ [][NextExport]_vars

(***************************************************************************)
(* FileUpload with its FilePreview dialog.  A request in net carries the  *)
(* content that was put in its form data; the reply is what the route     *)
(* answers for that content.                                               *)
(***************************************************************************)
DroppedFiles == {ValidFile, InvalidFile}
EditorValues == {ValidFile, ScenarioFile, <<>>}

\* if (editedContent) { new File([blob], ...) } else { file }
FormDataFile(upload) ==
    IF TruthyText(upload.editedContent) THEN upload.editedContent.text
    ELSE upload.file.content

Post(route, sent) == [route |-> route, sent |-> sent]

onDrop(content) ==
    /\ ~filePreview.open
    /\ fileUpload' = [fileUpload EXCEPT !.file = File("data.jsonl", content),
                                         !.editedContent = Null,
                                         !.validationError = NoError,
                                         !.uploadResponse = FALSE]
    /\ UNCHANGED <<vvars, svars, filePreview, download, imageGenerator, net>>

handleFileContentChange(upload, content) ==
    [upload EXCEPT !.editedContent = Text(content),
                   !.validationError = NoError,
                   !.uploadResponse = FALSE]

\* <Dialog onOpenChange>: opening reads the file into the three contents.
OpenPreview ==
    /\ fileUpload.file.present
    /\ ~filePreview.open
    /\ filePreview' = [filePreview EXCEPT !.open = TRUE,
                                           !.rawContent = fileUpload.file.content,
                                           !.editedContent = fileUpload.file.content,
                                           !.previousContent = fileUpload.file.content]
    /\ UNCHANGED <<vvars, svars, fileUpload, download, imageGenerator, net>>

ClosePreview ==
    /\ filePreview.open
    /\ filePreview' = [filePreview EXCEPT !.open = FALSE]
    /\ UNCHANGED <<vvars, svars, fileUpload, download, imageGenerator, net>>

EditContent ==
    /\ filePreview.open
    /\ ~filePreview.isEditing
    /\ filePreview' = [filePreview EXCEPT !.isEditing = TRUE]
    /\ UNCHANGED <<vvars, svars, fileUpload, download, imageGenerator, net>>

\* The user types in the editor.
handleEditorChange(value) ==
    /\ filePreview.open
    /\ filePreview.isEditing
    /\ value # filePreview.editedContent
    /\ filePreview' = [filePreview EXCEPT !.editedContent = value]
    /\ fileUpload' = handleFileContentChange(fileUpload, value)
    /\ UNCHANGED <<vvars, svars, download, imageGenerator, net>>

\* The Cancel button sets the editor's value prop back to rawContent.  Its
\* handler does not call onFileContentChange; whether the editor component
\* answers the new value prop with a change event (which would run
\* handleEditorChange) is up to the editor library, so both happen.
Cancel(changeEvent) ==
    /\ filePreview.open
    /\ filePreview.isEditing
    /\ filePreview' = [filePreview EXCEPT !.editedContent = filePreview.rawContent,
                                           !.isEditing = FALSE]
    /\ fileUpload' =
          IF changeEvent /\ filePreview.rawContent # filePreview.editedContent
          THEN handleFileContentChange(fileUpload, filePreview.rawContent)
          ELSE fileUpload
    /\ UNCHANGED <<vvars, svars, download, imageGenerator, net>>

handleSave ==
    /\ filePreview.open
    /\ filePreview.isEditing
    /\ filePreview' = [filePreview EXCEPT !.previousContent = filePreview.editedContent,
                                           !.isEditing = FALSE]
    /\ fileUpload' = handleFileContentChange(fileUpload, filePreview.editedContent)
    /\ UNCHANGED <<vvars, svars, download, imageGenerator, net>>

\* The Validate and Upload buttons are outside the modal dialog.
validateFile ==
    /\ fileUpload.file.present
    /\ ~filePreview.open
    /\ ~fileUpload.isValidating /\ ~fileUpload.isUploading
    /\ fileUpload' = [fileUpload EXCEPT !.isValidating = TRUE,
                                         !.validationError = NoError]
    /\ net' = net \cup {Post("/api/validate-jsonl", FormDataFile(fileUpload))}
    /\ UNCHANGED <<vvars, svars, filePreview, download, imageGenerator>>

\* The rest of validateFile, after the await.  The route answers 400 with
\* the errors of the content it was sent, or 200; without a reply the
\* request fails.
ValidateAnswered(q, replied) ==
    /\ q \in net
    /\ q.route = "/api/validate-jsonl"
    /\ net' = net \ {q}
    /\ LET result == validateJSONL(q.sent) IN
       fileUpload' =
          IF ~replied
          THEN [fileUpload EXCEPT
                  !.validationError =
                      ValidationError("Validation failed",
                                      <<"Unknown error occurred during validation">>,
                                      q.sent),
                  !.isValidating = FALSE]
          ELSE IF ~result.isValid
          THEN [fileUpload EXCEPT
                  !.validationError =
                      ValidationError("Invalid JSONL format", result.errors, q.sent),
                  !.isValidating = FALSE]
          ELSE [fileUpload EXCEPT !.isValidating = FALSE]
    /\ UNCHANGED <<vvars, svars, filePreview, download, imageGenerator>>

uploadFile ==
    /\ fileUpload.file.present
    /\ ~filePreview.open
    /\ ~fileUpload.isValidating /\ ~fileUpload.isUploading
    /\ fileUpload.validationError.isNull
    /\ fileUpload' = [fileUpload EXCEPT !.isUploading = TRUE]
    /\ net' = net \cup {Post("/api/upload", FormDataFile(fileUpload))}
    /\ UNCHANGED <<vvars, svars, filePreview, download, imageGenerator>>

\* The rest of uploadFile: 400 for content that fails validation, 200 when
\* the upstream call succeeds, 500 when it fails, or no reply at all.
UploadAnswered(q, replied, ok) ==
    /\ q \in net
    /\ q.route = "/api/upload"
    /\ net' = net \ {q}
    /\ LET result == validateJSONL(q.sent) IN
       fileUpload' =
          IF ~replied
          THEN [fileUpload EXCEPT
                  !.validationError =
                      ValidationError("Upload failed",
                                      <<"Unknown error occurred during upload">>,
                                      q.sent),
                  !.isUploading = FALSE]
          ELSE IF ~result.isValid
          THEN [fileUpload EXCEPT
                  !.validationError =
                      ValidationError("Invalid JSONL format", result.errors, q.sent),
                  !.isUploading = FALSE]
          ELSE IF ~ok
          THEN [fileUpload EXCEPT
                  !.validationError =
                      ValidationError("Failed to upload file", <<>>, q.sent),
                  !.isUploading = FALSE]
          ELSE [fileUpload EXCEPT !.uploadResponse = TRUE, !.isUploading = FALSE]
    /\ UNCHANGED <<vvars, svars, filePreview, download, imageGenerator>>

InitFileUploadPage ==
    /\ input = <<>>
    /\ validationResult = NotRun
    /\ InitServer
    /\ InitClient

NextFileUpload ==
    \/ \E content \in DroppedFiles : onDrop(content)
    \/ OpenPreview
    \/ ClosePreview
    \/ EditContent
    \/ \E value \in EditorValues : handleEditorChange(value)
    \/ \E changeEvent \in BOOLEAN : Cancel(changeEvent)
    \/ handleSave
    \/ validateFile
    \/ \E q \in net, replied \in BOOLEAN : ValidateAnswered(q, replied)
    \/ uploadFile
    \/ \E q \in net, replied \in BOOLEAN, ok \in BOOLEAN : UploadAnswered(q, replied, ok)

SpecFileUpload == InitFileUploadPage /\ [][NextFileUpload]_vars

(***************************************************************************)
(* The server.                                                             *)
(***************************************************************************)
Init ==
    /\ input = <<>>
    /\ validationResult = NotRun
    /\ InitServer
    /\ InitClient

\* /api/validate-jsonl and /api/upload
NextJsonl ==
    \E r \in Slots :
        \/ \E hasFile \in BOOLEAN, content \in SampleFiles :
               PostValidateJsonl(r, hasFile, content)
        \/ ValidateJsonlReturned(r)
        \/ \E hasFile \in BOOLEAN, content \in SampleFiles, purpose \in Purposes :
               PostUpload(r, hasFile, content, purpose)
        \/ UploadValidated(r)
        \/ \E ok \in BOOLEAN : UploadReturned(r, ok)

\* /api/edit-image and POST /api/image-variations
NextEdit ==
    \E r \in Slots :
        \/ \E prompt \in Prompts \cup {NoPrompt}, files \in SUBSET {"image", "mask"} :
               PostEditImage(r, prompt, files)
        \/ \E ok \in BOOLEAN, response \in Responses :
               EditImageReturned(r, ok, response)
        \/ \E hasFile \in BOOLEAN : PostImageVariations(r, hasFile)
        \/ \E ok \in BOOLEAN, response \in Responses :
               ImageVariationsReturned(r, ok, response)

\* /api/generate-image
NextGenerate ==
    \E r \in Slots :
        \/ \E prompt \in Prompts \cup {NoPrompt} : PostGenerateImage(r, prompt)
        \/ \E ok \in BOOLEAN, response \in Responses :
               GenerateImageReturned(r, ok, response)

\* The listings.
NextList ==
    \E r \in Slots :
        \/ GetImages(r)
        \/ GetImageEdits(r)
        \/ GetImageVariations(r)

\* /api/generate/stream
NextStream ==
    \E r \in 1..MaxStreams :
        \/ \E prompt \in Prompts \cup {NoPrompt} : PostGenerateStream(r, prompt)
        \/ \E ok \in BOOLEAN : StreamOpened(r, ok)
        \/ \E content \in Fragments : StreamChunk(r, content)
        \/ StreamEnd(r)
        \/ StreamFailed(r)

\* /api/generate
NextText ==
    \E r \in Slots :
        \/ \E prompt \in Prompts \cup {NoPrompt} : PostGenerate(r, prompt)
        \/ \E ok \in BOOLEAN : GenerateReturned(r, ok)

Next ==
    NextJsonl \/ NextEdit \/ NextGenerate \/ NextList \/ NextStream \/ NextText
        \/ Tick

\* The server with every route of the model.
Spec == Init /\ [][Next]_vars

\* The routes that receive a .jsonl file.
SpecJsonl == Init /\ [][NextJsonl]_vars

\* The routes that receive a multipart upload.
NextUploads == NextJsonl \/ NextEdit
SpecUploads == Init /\ [][NextUploads]_vars

\* The routes that append to a category log or list one.
NextLogs == NextGenerate \/ NextEdit \/ NextList \/ Tick
SpecLogs == Init /\ [][NextLogs]_vars

\* The streaming relay.
SpecStream == Init /\ [][NextStream]_vars

\* The routes that require an input: a prompt, a file or an image.
NextInputs == NextJsonl \/ NextEdit \/ NextGenerate \/ NextStream \/ NextText
SpecInputs == Init /\ [][NextInputs]_vars

(***************************************************************************)
(* Listings of a log file of any content: lines the server wrote, blank    *)
(* lines, and lines that are not JSON (a line cut short by a crash or an   *)
(* edit of the file).                                                      *)
(***************************************************************************)
SampleEntries ==
    {Entry(ToISOString(0), p, <<>>, <<>>, "url1") : p \in Prompts}
        \cup {Entry(ToISOString(1), <<>>, Filename(1, "image"), <<>>, "url1")}

\* A line cut short: the JSON text of an entry without its closing brace.
CutShort(e) == SubSeq(Stringify(e), 1, Len(Stringify(e)) - 1)

LogPieces ==
    {Stringify(e) : e \in SampleEntries} \cup {CutShort(e) : e \in SampleEntries}
        \cup {<<>>, <<SP>>}

RECURSIVE LogContentsOfLen(_)
LogContentsOfLen(n) ==
    IF n = 0 THEN {<<>>}
    ELSE {s \o piece \o <<NL>> : s \in LogContentsOfLen(n - 1), piece \in LogPieces}

\* Up to MaxLen lines, then possibly a last line without its newline.
LogContents ==
    LET whole == UNION {LogContentsOfLen(n) : n \in 0..MaxLen}
    IN  whole \cup {s \o piece : s \in whole, piece \in LogPieces}

InitListing ==
    /\ input = <<>>
    /\ validationResult = NotRun
    /\ pc = [r \in Slots |-> "idle"]
    /\ req = [r \in Slots |-> NoRequest]
    /\ res = [r \in Slots |-> NoResponse]
    /\ obs = [r \in Slots |-> NoCalls]
    /\ last = NoneEnded
    /\ uploads = {}
    /\ \E c \in Categories, content \in LogContents :
          logs = [d \in Categories |->
                    IF d = c THEN [exists |-> TRUE, content |-> content] ELSE NoLog]
    /\ appended = [c \in Categories |-> <<>>]
    /\ now = 0
    /\ served = 0
    /\ InitClient

SpecListing == InitListing /\ [][NextList]_vars

(***************************************************************************)
(* ImageGenerator.  A call in net is a request the component has sent and *)
(* not yet seen answered; the answer is what server.js replies to that    *)
(* method and path.                                                        *)
(***************************************************************************)
Call(method, url, form) == [method |-> method, url |-> url, form |-> form]

\* The routes server.js registers.
Routes ==
    {<<"GET", "/api/health">>, <<"POST", "/api/validate-jsonl">>,
     <<"POST", "/api/upload">>, <<"GET", "/api/files">>,
     <<"POST", "/api/generate/stream">>, <<"POST", "/api/generate">>,
     <<"POST", "/api/generate-image">>, <<"GET", "/api/images">>,
     <<"POST", "/api/edit-image">>, <<"POST", "/api/image-variations">>,
     <<"GET", "/api/prompt-suggestions">>, <<"GET", "/api/image-edits">>,
     <<"GET", "/api/image-variations">>}

\* A reply: the status, the error property of the body ("" when it has
\* none) and the list-valued properties of the body.
Reply(status, error, lists) == [status |-> status, error |-> error, lists |-> lists]
NoLists == [k \in {} |-> <<>>]
Only(key, items) == [k \in {key} |-> items]

\* res.json({ <key>: ListAll(log) }) of the three list routes.
ListReply(key, log, error) ==
    LET listed == ListAll(log)
    IN  IF listed.status = 200 THEN Reply(200, "", Only(key, listed.entries))
        ELSE Reply(500, error, NoLists)

\* The upstream answer that the image routes pass on: { created, data }.
Upstream == Only("data", <<"url1">>)

\* What the server answers.  express.json() reads JSON bodies only, so the
\* routes without multer see no prompt in a multipart form.
ServerReply(q, ok) ==
    LET route == <<q.method, q.url>>
        body == IF q.form.multipart THEN NoPrompt ELSE q.form.prompt
    IN  CASE route \notin Routes -> Reply(404, "", NoLists)
          [] route = <<"GET", "/api/images">> ->
                ListReply("images", logs["generation"], "Failed to fetch images")
          [] route = <<"GET", "/api/image-edits">> ->
                ListReply("edits", logs["edit"], "Failed to fetch edits")
          [] route = <<"GET", "/api/image-variations">> ->
                ListReply("variations", logs["variation"], "Failed to fetch variations")
          [] route = <<"POST", "/api/generate">> ->
                IF PromptMissing(body) THEN Reply(400, "Prompt is required", NoLists)
                ELSE IF ok THEN Reply(200, "", Only("result", <<"text">>))
                ELSE Reply(500, "Failed to generate response", NoLists)
          [] route = <<"POST", "/api/generate-image">> ->
                IF PromptMissing(body) THEN Reply(400, "Prompt is required", NoLists)
                ELSE IF ok THEN Reply(200, "", Upstream)
                ELSE Reply(500, "Failed to generate image", NoLists)
          [] route = <<"POST", "/api/edit-image">> ->
                IF PromptMissing(q.form.prompt)
                THEN Reply(400, "Prompt is required", NoLists)
                ELSE IF ~q.form.image THEN Reply(400, "Image is required", NoLists)
                ELSE IF ok THEN Reply(200, "", Upstream)
                ELSE Reply(500, "Failed to edit image", NoLists)
          [] route = <<"POST", "/api/image-variations">> ->
                IF ~q.form.image THEN Reply(400, "Image is required", NoLists)
                ELSE IF ok THEN Reply(200, "", Upstream)
                ELSE Reply(500, "Failed to generate variations", NoLists)
          [] OTHER -> Reply(200, "", NoLists)

\* response.data.<key>
Data(reply, key) ==
    IF key \in DOMAIN reply.lists THEN List(reply.lists[key]) ELSE UndefinedList

\* error.response?.data?.error || error.message
AxiosError(reply) ==
    IF reply.error # "" THEN reply.error ELSE "Request failed with status code"

\* The message of the TypeError thrown by undefined[0] and by [...undefined].
TypeError == "TypeError"

Succeeded(reply) == reply.status \in 200..299

FormData(prompt, image, mask) ==
    [multipart |-> TRUE, prompt |-> prompt, image |-> image, mask |-> mask]
NoForm == FormData(<<>>, FALSE, FALSE)

TypedPrompts == {<<>>, <<"a">>}

setPrompt(value) ==
    /\ value # imageGenerator.prompt
    /\ imageGenerator' = [imageGenerator EXCEPT !.prompt = value]
    /\ UNCHANGED <<vvars, svars, fileUpload, filePreview, download, net>>

handleImageSelect ==
    /\ ~imageGenerator.selectedImage
    /\ imageGenerator' = [imageGenerator EXCEPT !.selectedImage = TRUE]
    /\ UNCHANGED <<vvars, svars, fileUpload, filePreview, download, net>>

\* The lists fetched when the component mounts: which state to set, from
\* which route, reading which property of the answer.
Fetches ==
    {[state |-> "generatedImages", url |-> "/api/images", key |-> "images"],
     [state |-> "imageEdits", url |-> "/api/image-edits", key |-> "edits"],
     [state |-> "variations", url |-> "/api/image-variations", key |-> "images"]}

\* The rest of fetchImages, fetchEdits and fetchVariations after the await:
\* the state set from the answer.
AfterFetch(f, reply) ==
    IF Succeeded(reply)
    THEN [imageGenerator EXCEPT ![f.state] = Data(reply, f.key)]
    ELSE [imageGenerator EXCEPT !.error = AxiosError(reply)]

FetchAnswered(f) ==
    /\ Call("GET", f.url, NoForm) \in net
    /\ net' = net \ {Call("GET", f.url, NoForm)}
    /\ imageGenerator' = AfterFetch(f, ServerReply(Call("GET", f.url, NoForm), TRUE))
    /\ UNCHANGED <<vvars, svars, fileUpload, filePreview, download>>

\* Up to the await of handleGenerate, handleEdit and handleCreateVariation;
\* the buttons are disabled while isLoading.
Send(url, needsPrompt, needsImage) ==
    /\ ~imageGenerator.isLoading
    /\ needsPrompt => imageGenerator.prompt # <<>>
    /\ needsImage => imageGenerator.selectedImage
    /\ imageGenerator' = [imageGenerator EXCEPT !.isLoading = TRUE, !.error = ""]
    /\ net' = net \cup
                {Call("POST", url,
                      FormData(IF needsPrompt THEN imageGenerator.prompt ELSE <<>>,
                               needsImage /\ imageGenerator.selectedImage,
                               needsImage /\ imageGenerator.selectedMask))}
    /\ UNCHANGED <<vvars, svars, fileUpload, filePreview, download>>

handleGenerate == Send("/api/generate", TRUE, FALSE)
handleEdit == Send("/api/edit", TRUE, TRUE)
handleCreateVariation == Send("/api/variations", FALSE, TRUE)

\* After the await: the try block when the request succeeded, the catch
\* block otherwise, then finally.  Reading [0] of, or spreading, an
\* undefined images property throws a TypeError inside the try block.
AfterAwait(state, reply, images) ==
    IF ~Succeeded(reply)
    THEN [imageGenerator EXCEPT !.error = AxiosError(reply), !.isLoading = FALSE]
    ELSE IF ~images.defined \/ ~imageGenerator[state].defined
    THEN [imageGenerator EXCEPT !.error = TypeError, !.isLoading = FALSE]
    ELSE [imageGenerator EXCEPT
            ![state] = List(imageGenerator[state].items \o
                              (IF state = "variations" THEN images.items
                               ELSE IF images.items = <<>> THEN <<"undefined">>
                               ELSE <<images.items[1]>>)),
            !.prompt = IF state = "variations" THEN @ ELSE <<>>,
            !.selectedImage = IF state = "generatedImages" THEN @ ELSE FALSE,
            !.selectedMask = IF state = "generatedImages" THEN @ ELSE FALSE,
            !.isLoading = FALSE]

Answered(url, state, ok) ==
    \E q \in net :
       /\ q.method = "POST" /\ q.url = url
       /\ net' = net \ {q}
       /\ imageGenerator' =
             AfterAwait(state, ServerReply(q, ok), Data(ServerReply(q, ok), "images"))
       /\ UNCHANGED <<vvars, svars, fileUpload, filePreview, download>>

GenerateAnswered(ok) == Answered("/api/generate", "generatedImages", ok)
EditAnswered(ok) == Answered("/api/edit", "imageEdits", ok)
VariationAnswered(ok) == Answered("/api/variations", "variations", ok)

\* The log files hold what earlier requests appended; useEffect has sent the
\* three fetches.
StoredLogs ==
    {NoLog} \cup {[exists |-> TRUE, content |-> LogLine(e)] : e \in SampleEntries}

InitImageGeneratorPage ==
    /\ input = <<>>
    /\ validationResult = NotRun
    /\ pc = [r \in Slots |-> "idle"]
    /\ req = [r \in Slots |-> NoRequest]
    /\ res = [r \in Slots |-> NoResponse]
    /\ obs = [r \in Slots |-> NoCalls]
    /\ last = NoneEnded
    /\ uploads = {}
    /\ logs \in [Categories -> StoredLogs]
    /\ appended = [c \in Categories |-> <<>>]
    /\ now = 0
    /\ served = 0
    /\ fileUpload = InitFileUpload
    /\ filePreview = InitFilePreview
    /\ download = NoDownload
    /\ imageGenerator = InitImageGenerator
    /\ net = {Call("GET", f.url, NoForm) : f \in Fetches}

NextImageGenerator ==
    \/ \E value \in TypedPrompts : setPrompt(value)
    \/ handleImageSelect
    \/ \E f \in Fetches : FetchAnswered(f)
    \/ handleGenerate
    \/ handleEdit
    \/ handleCreateVariation
    \/ \E ok \in BOOLEAN : GenerateAnswered(ok)
    \/ \E ok \in BOOLEAN : EditAnswered(ok)
    \/ \E ok \in BOOLEAN : VariationAnswered(ok)

SpecImageGenerator == InitImageGeneratorPage /\ [][NextImageGenerator]_vars

(***************************************************************************)
(* A run of the validator on a file of any content.                        *)
(***************************************************************************)
InitValidator ==
    /\ input \in Contents
    /\ validationResult = NotRun
    /\ InitServer
    /\ InitClient

Validate ==
    /\ validationResult = NotRun
    /\ validationResult' = validateJSONL(input)
    /\ UNCHANGED <<input, svars, cvars>>

NextValidator == Validate

SpecValidator == InitValidator /\ [][NextValidator]_vars

(***************************************************************************)
(* Claims about the temporary files of uploads                             *)
(***************************************************************************)
Multipart ==
    {"POST /api/validate-jsonl", "POST /api/upload", "POST /api/edit-image",
     "POST /api/image-variations"}

\* The request that finished in the last step had its response sent.
Responded == last.at = "done" /\ last.res.ended

\* C1: when the response of a multipart request is sent, every temporary file
\* written to uploads/ for that request has been removed.
C1_TempFilesRemoved ==
    (Responded /\ last.req.ep \in Multipart) =>
        \A f \in last.req.files : Path(last.req.id, f) \notin uploads

UploadWithFile ==
    /\ last.at \in Finished
    /\ last.req.ep = "POST /api/upload"
    /\ "file" \in last.req.files

C3_InvalidNeverForwarded ==
    /\ \A r \in Slots :
          (req[r].ep = "POST /api/upload"
              /\ ~validateJSONL(req[r].content).isValid) => obs[r].calls = 0
    /\ (UploadWithFile /\ ~validateJSONL(last.req.content).isValid) =>
          /\ last.obs.calls = 0
          /\ last.res.status = 400
          /\ last.res.details = validateJSONL(last.req.content).errors

\* An invalid upload answered with several errors.
C3_Witness ==
    /\ UploadWithFile
    /\ ~validateJSONL(last.req.content).isValid
    /\ Len(last.res.details) >= 2

(***************************************************************************)
(* Claims about the streaming relay                                        *)
(***************************************************************************)
IsErrorResponse(response) == response.ended /\ response.status >= 400

EndsWithSentinel(events) ==
    /\ Len(events) > 0
    /\ events[Len(events)] = DONE
    /\ \A i \in 1..(Len(events) - 1) : events[i] # DONE

\* C4: a stream request with a prompt ends either with no fragment and one
\* structured error, or with its fragments followed by the [DONE] sentinel
\* and no error.
C4_ErrorOrSentinel ==
    (/\ last.at \in Finished
     /\ last.req.ep = "POST /api/generate/stream"
     /\ last.req.prompt # NoPrompt) =>
        \/ IsErrorResponse(last.res) /\ last.res.events = <<>>
        \/ EndsWithSentinel(last.res.events) /\ ~IsErrorResponse(last.res)

(***************************************************************************)
(* Claims about the category logs                                          *)
(***************************************************************************)
ListRoute(c) ==
    CASE c = "generation" -> "GET /api/images"
      [] c = "edit" -> "GET /api/image-edits"
      [] c = "variation" -> "GET /api/image-variations"

AppendRoute(c) ==
    CASE c = "generation" -> "POST /api/generate-image"
      [] c = "edit" -> "POST /api/edit-image"
      [] c = "variation" -> "POST /api/image-variations"

\* C5: after N appends a listing returns exactly the N entries in reverse
\* append order, both as listAll computes it on the log and as the last
\* listing response carried it when nothing was appended since.
C5_ListReversesAppends ==
    \A c \in Categories :
        LET expected == Reverse(appended[c]) IN
        /\ ListAll(logs[c]) = [status |-> 200, entries |-> expected]
        /\ (/\ last.req.ep = ListRoute(c)
            /\ Len(last.res.entries) = Len(appended[c])) =>
               /\ last.res.status = 200
               /\ last.res.entries = expected

\* Three different entries appended, listed last first.
C5_Witness ==
    \E c \in Categories :
        /\ Len(appended[c]) = 3
        /\ appended[c][1] # appended[c][2]
        /\ appended[c][2] # appended[c][3]
        /\ appended[c][1] # appended[c][3]
        /\ ListAll(logs[c]).entries =
              <<appended[c][3], appended[c][2], appended[c][1]>>

Pieces(c) == Split(logs[c].content, 1, 1)

\* C6: at every state each log file is a sequence of whole lines, one per
\* completed append: the i-th line is the complete JSON text of the i-th
\* append with no other bytes inside it, each line is ended by its newline,
\* and nothing follows the last newline.
C6_WholeLines ==
    \A c \in Categories :
        LET pieces == Pieces(c) IN
        /\ Len(pieces) = Len(appended[c]) + 1
        /\ pieces[Len(pieces)] = <<>>
        /\ \A i \in 1..Len(appended[c]) : pieces[i] = Stringify(appended[c][i])

\* A request appended its line while an earlier request to the same log was
\* still suspended on its upstream call.
C6_Witness ==
    \E c \in Categories, r \in Slots :
        /\ last.req.ep = AppendRoute(c)
        /\ last.obs.appends = 1
        /\ pc[r] = "calling"
        /\ req[r].ep = AppendRoute(c)
        /\ req[r].id < last.req.id
        /\ Len(appended[c]) >= 1

\* The number of lines in a log file: its newlines.
Lines(log) == Cardinality({i \in 1..Len(log.content) : log.content[i] = NL})

\* C7: a step adds exactly one entry to a category log when it ends a
\* generation, edit or variation request whose upstream call succeeded, and
\* no step adds an entry otherwise (an upstream failure, a 400).
C7_OneEntryPerSuccess ==
    [][\A c \in Categories :
          Lines(logs'[c]) - Lines(logs[c]) =
              IF /\ last'.at \in Finished
                 /\ last'.req.ep = AppendRoute(c)
                 /\ last'.obs.upstream = "ok"
              THEN 1 ELSE 0]_vars

\* A request whose upstream call succeeded, with its entry in the log.
C7_Witness ==
    \E c \in Categories :
        /\ last.req.ep = AppendRoute(c)
        /\ last.obs.upstream = "ok"
        /\ last.res.status = 200
        /\ Lines(logs[c]) >= 1

\* C8: listing a category whose log file does not exist returns the empty
\* sequence with status 200.
C8_AbsentLogListsEmpty ==
    \A c \in Categories :
        ~logs[c].exists =>
            /\ ListAll(logs[c]) = [status |-> 200, entries |-> <<>>]
            /\ last.req.ep = ListRoute(c) =>
                  last.res.status = 200 /\ last.res.entries = <<>>

\* A listing answered before the first append to its log.
C8_Witness ==
    \E c \in Categories :
        /\ ~logs[c].exists
        /\ last.req.ep = ListRoute(c)
        /\ Responded
        /\ last.res.status = 200

(***************************************************************************)
(* Claims about validateJSONL                                              *)
(***************************************************************************)
\* The line endings of a content, counted without reading it line by line:
\* every CR, and every LF that does not complete a CR LF pair.
LineEndings(content) ==
    {i \in 1..Len(content) :
        \/ content[i] = CR
        \/ content[i] = LF /\ (i = 1 \/ content[i - 1] # CR)}

TrailingPartial(content) ==
    Len(content) > 0 /\ content[Len(content)] \in Texts

SegmentCount(content) ==
    Cardinality(LineEndings(content)) + (IF TrailingPartial(content) THEN 1 ELSE 0)

HasRun == validationResult # NotRun

\* C9: totalLines is the number of newline-delimited segments of the input,
\* blank ones included: one per line ending, plus one for a non-empty
\* trailing partial line.
C9_TotalLines ==
    HasRun => validationResult.totalLines = SegmentCount(input)

\* A run over a blank line followed by a trailing partial line.
C9_Witness ==
    /\ HasRun
    /\ Len(input) >= 3
    /\ input[Len(input) - 2] \in Terminators
    /\ input[Len(input) - 1] = LF
    /\ input[Len(input)] \in Texts
    /\ validationResult.totalLines >= 2

\* The spec's FineTuneExample: the line parses as JSON and both fields are
\* present, are strings and are at most 4096 long.
FieldOk(v) == v.t = "string" /\ v.n <= MaxFieldLength

WellFormedLine(line) ==
    /\ Len(line) = 1
    /\ line[1].k = "object"
    /\ FieldOk(line[1].prompt)
    /\ FieldOk(line[1].completion)

ErrorsOfLine(n) ==
    {i \in 1..Len(validationResult.errors) : validationResult.errors[i].line = n}

\* C10: a line contributes zero entries to errors if and only if it parses
\* as JSON and prompt and completion are present strings of length at most
\* 4096 (the empty string included).
C10_ValidIffWellFormed ==
    HasRun =>
        \A n \in 1..Len(ReadLines(input)) :
            (ErrorsOfLine(n) = {}) <=> WellFormedLine(ReadLines(input)[n])

\* The errors pushed for line n, in the order of the list.
ErrorTextsOfLine(n) ==
    LET mine == SelectSeq(validationResult.errors, LAMBDA e : e.line = n)
    IN  [i \in 1..Len(mine) |-> mine[i].text]

HasError(n, text) ==
    \E i \in 1..Len(validationResult.errors) :
        validationResult.errors[i] = Err(n, text)

\* The value JSON.parse returns for the line is an object, null or another
\* JSON value: the line is one text run that is not a syntax error.
ParsesAsJson(line) == Len(line) = 1 /\ line[1].k \in {"object", "null", "scalar"}

\* The field is missing or is not a string.
NotAString(v) == v.t # "string"

\* C11: every line that parses as a JSON value (object, null, number,
\* string, array) gets the field checks: the prompt message when prompt is
\* missing or not a string, the completion message when completion is, so a
\* line missing both has at least two errors.
C11_FieldChecksOnEveryValue ==
    HasRun =>
        \A n \in 1..Len(ReadLines(input)) :
            LET line == ReadLines(input)[n] IN
            ParsesAsJson(line) =>
                /\ NotAString(line[1].prompt) => HasError(n, MsgPrompt)
                /\ NotAString(line[1].completion) => HasError(n, MsgCompletion)
                /\ (NotAString(line[1].prompt) /\ NotAString(line[1].completion))
                      => Cardinality(ErrorsOfLine(n)) >= 2

\* C12: a blank line is counted in totalLines and gets the two missing-field
\* errors.
C12_BlankLineMissingFields ==
    HasRun =>
        \A n \in 1..Len(ReadLines(input)) :
            ReadLines(input)[n] = <<>> =>
                /\ validationResult.totalLines >= n
                /\ HasError(n, MsgPrompt)
                /\ HasError(n, MsgCompletion)

\* C14: the empty input gives totalLines = 0, no errors and isValid = true.
C14_EmptyInput ==
    (HasRun /\ input = <<>>) =>
        validationResult = [isValid |-> TRUE, errors |-> <<>>, totalLines |-> 0]

\* The validator has run on the empty file.
C14_Witness == HasRun /\ input = <<>> /\ validationResult.isValid

\* JSON.parse(line) throws: the line is blank or is not JSON.
FailsToParse(line) == Len(line) = 0 \/ line[1].k = "garbage"

\* C19: a line that fails to parse has exactly one error, the Invalid JSON
\* format message, and no field or length message; the lines after it are
\* still read and checked.
C19_ParseFailureOneError ==
    HasRun =>
        /\ validationResult.totalLines = SegmentCount(input)
        /\ \A n \in 1..Len(ReadLines(input)) :
              FailsToParse(ReadLines(input)[n]) => ErrorTextsOfLine(n) = <<MsgJson>>

\* A line that fails to parse followed by a line that fails the field
\* checks.
C19_Witness ==
    /\ HasRun
    /\ \E n \in 1..(Len(ReadLines(input)) - 1) :
          /\ FailsToParse(ReadLines(input)[n])
          /\ ErrorTextsOfLine(n) = <<MsgJson>>
          /\ HasError(n + 1, MsgPrompt)

\* C20: a length error is pushed for a field only when the field is a string
\* longer than 4096; an array or an object with a length above 4096 gets
\* none.
C20_LengthErrorOnlyForStrings ==
    HasRun =>
        \A n \in 1..Len(ReadLines(input)) :
            LET line == ReadLines(input)[n] IN
            ParsesAsJson(line) =>
                /\ HasError(n, MsgPromptLen) =>
                      (line[1].prompt.t = "string"
                          /\ line[1].prompt.n > MaxFieldLength)
                /\ HasError(n, MsgCompletionLen) =>
                      (line[1].completion.t = "string"
                          /\ line[1].completion.n > MaxFieldLength)

(***************************************************************************)
(* Claims about the responses of the routes                                *)
(***************************************************************************)
\* C13: POST /api/validate-jsonl with the two lines
\* {"prompt":"a","completion":"b"} and {"prompt":123} is answered with status
\* 400, totalLines = 2 and exactly the error list
\* ["Line 2: Missing or invalid 'prompt' field"].
C13_ScenarioOneError ==
    (/\ Responded
     /\ last.req.ep = "POST /api/validate-jsonl"
     /\ "file" \in last.req.files
     /\ last.req.content = ScenarioFile) =>
        /\ last.res.status = 400
        /\ last.res.totalLines = 2
        /\ last.res.details = <<Err(2, MsgPrompt)>>

\* C15: no failure propagates out of a handler: every request that ends,
\* ends with its handler returned and one complete response sent, also when
\* the upstream stream fails after event-stream fragments were written.
C15_NoFailureEscapes ==
    last.at \in Finished =>
        /\ last.at = "done"
        /\ last.res.ended
        /\ last.res.status # 0

NeedsPrompt ==
    {"POST /api/generate", "POST /api/generate/stream", "POST /api/generate-image",
     "POST /api/edit-image"}

NeedsFile == {"POST /api/upload", "POST /api/validate-jsonl"}

NeedsImage == {"POST /api/edit-image", "POST /api/image-variations"}

\* The request lacks an input its route requires.
MissingInput(q) ==
    \/ q.ep \in NeedsPrompt /\ q.prompt = NoPrompt
    \/ q.ep \in NeedsFile /\ "file" \notin q.files
    \/ q.ep \in NeedsImage /\ "image" \notin q.files

\* C16: a request that lacks a required input is answered 400 in the step
\* that receives it; it makes no external call, appends to no log, and its
\* handler is never left waiting on anything.
C16_MissingInputRejected ==
    /\ [](\A r \in Slots : pc[r] # "idle" => ~MissingInput(req[r]))
    /\ [][(last'.at \in Finished /\ MissingInput(last'.req)) =>
             /\ last'.at = "done"
             /\ last'.res.ended
             /\ last'.res.status = 400
             /\ last'.obs.calls = 0
             /\ last'.obs.appends = 0
             /\ logs' = logs
             /\ appended' = appended
             /\ served' = served + 1]_vars

\* An edit request with a prompt and a mask but no image, answered 400.
C16_Witness ==
    /\ Responded
    /\ last.req.ep = "POST /api/edit-image"
    /\ last.req.prompt # NoPrompt
    /\ last.req.files = {"mask"}
    /\ last.res.status = 400
    /\ last.obs.calls = 0

\* The purpose the client chose: the field of the request when it is set,
\* "fine-tune" when it is not.
ChosenPurpose(q) == IF q.purpose # "" THEN q.purpose ELSE "fine-tune"

IsPrefix(s, t) == Len(s) <= Len(t) /\ SubSeq(t, 1, Len(s)) = s

\* The entries of a log in the order of the file.
EntriesOf(log) == Reverse(ListAll(log).entries)

\* C18: every step of the server (an append, a listing, a failing request)
\* leaves each category log with its former entries as a prefix of its new
\* ones: no entry is changed, reordered or removed, and the file is never
\* deleted.
C18_AppendOnly ==
    [][\A c \in Categories :
          /\ logs[c].exists => logs'[c].exists
          /\ IsPrefix(logs[c].content, logs'[c].content)
          /\ ListAll(logs'[c]).status = 200
          /\ IsPrefix(EntriesOf(logs[c]), EntriesOf(logs'[c]))]_vars

\* A log that holds two entries, the second appended after the first.
C18_Witness ==
    \E c \in Categories :
        /\ Len(appended[c]) >= 2
        /\ EntriesOf(logs[c]) = appended[c]
        /\ last.req.ep = AppendRoute(c)
        /\ last.obs.appends = 1

\* C21: the errors returned by validateJSONL are in line order: the line
\* numbers of successive entries never decrease, and each lies between 1
\* and totalLines.
C21_ErrorsInLineOrder ==
    HasRun =>
        LET errors == validationResult.errors IN
        /\ \A i \in 1..Len(errors) :
              1 <= errors[i].line /\ errors[i].line <= validationResult.totalLines
        /\ \A i \in 1..(Len(errors) - 1) : errors[i].line <= errors[i + 1].line

\* Errors on two different lines, the first line with more than one error.
C21_Witness ==
    /\ HasRun
    /\ Len(validationResult.errors) >= 3
    /\ validationResult.errors[1].line = validationResult.errors[2].line
    /\ validationResult.errors[2].line < validationResult.errors[3].line

\* The content fragments among the chunks received, in the order received.
FragmentsOf(received) == SelectSeq(received, LAMBDA content : content # "")

\* C22: what a stream request has written is one event per fragment received
\* from upstream, in upstream order, nothing dropped, doubled or reordered;
\* when the upstream stream completes, exactly one [DONE] follows as the
\* last thing written and the connection is closed.
C22_FragmentsThenSentinel ==
    /\ \A r \in Slots :
          req[r].ep = "POST /api/generate/stream" =>
              /\ res[r].events = FragmentsOf(obs[r].received)
              /\ ~res[r].ended
    /\ (last.req.ep = "POST /api/generate/stream" /\ last.obs.upstream = "ok") =>
          /\ last.res.events = Append(FragmentsOf(last.obs.received), DONE)
          /\ last.res.ended
          /\ last.res.status = 200
    /\ (last.req.ep = "POST /api/generate/stream"
            /\ last.obs.upstream = "failed") =>
          last.res.events = FragmentsOf(last.obs.received)

\* A completed stream of two different fragments.
C22_Witness ==
    /\ last.req.ep = "POST /api/generate/stream"
    /\ last.obs.upstream = "ok"
    /\ Len(last.res.events) = 3
    /\ last.res.events[1] # last.res.events[2]
    /\ last.res.events[3] = DONE

\* The lines JSON.parse accepts among the lines a sample log can hold.
WellFormedLogLines == {Stringify(e) : e \in SampleEntries}

\* A non-blank line that is not JSON.
Malformed(piece) == NonBlank(piece) /\ piece \notin WellFormedLogLines

\* C23: a listing of a log with a malformed non-blank line anywhere in it is
\* answered 500 with no entries at all; blank lines are dropped without
\* error, so a log without a malformed line lists one entry per non-blank
\* line; and a listing never changes the log.
C23_MalformedLineIsFatal ==
    /\ [](\A c \in Categories :
             (last.req.ep = ListRoute(c) /\ logs[c].exists) =>
                 LET pieces == Split(logs[c].content, 1, 1)
                     kept == SelectSeq(pieces, NonBlank)
                 IN  IF \E i \in 1..Len(pieces) : Malformed(pieces[i])
                     THEN last.res.status = 500 /\ last.res.entries = <<>>
                     ELSE /\ last.res.status = 200
                          /\ Len(last.res.entries) = Len(kept)
                          /\ \A i \in 1..Len(kept) :
                                Stringify(last.res.entries[Len(kept) + 1 - i])
                                    = kept[i])
    /\ [][last'.req.ep \in {ListRoute(c) : c \in Categories} => logs' = logs]_vars

\* A listing answered 500 for a log whose first and last lines are
\* well-formed, with a malformed line and a blank line between them.
C23_Witness ==
    \E c \in Categories :
        /\ last.req.ep = ListRoute(c)
        /\ last.res.status = 500
        /\ LET pieces == Split(logs[c].content, 1, 1) IN
           /\ Len(pieces) >= 4
           /\ pieces[1] \in WellFormedLogLines
           /\ Malformed(pieces[2])
           /\ pieces[Len(pieces) - 1] \in WellFormedLogLines

\* The category of an entry, told by its keys: a generation has a prompt and
\* no originalImage, an edit has both, a variation has an originalImage and
\* no prompt.
CategoryOf(e) ==
    IF e.originalImage = <<>> THEN "generation"
    ELSE IF e.prompt # <<>> THEN "edit"
    ELSE "variation"

\* C24: the three logs are independent: a step changes a category's log only
\* by ending a request of that category's append route, such a step leaves
\* the other two logs as they were, and a listing of a category returns only
\* entries of that category.
C24_LogsIndependent ==
    /\ [](\A c \in Categories :
             /\ \A i \in 1..Len(ListAll(logs[c]).entries) :
                   CategoryOf(ListAll(logs[c]).entries[i]) = c
             /\ last.req.ep = ListRoute(c) =>
                   \A i \in 1..Len(last.res.entries) :
                       CategoryOf(last.res.entries[i]) = c)
    /\ [][\A c \in Categories :
             logs'[c] # logs[c] =>
                 /\ last'.req.ep = AppendRoute(c)
                 /\ \A d \in Categories \ {c} : logs'[d] = logs[d]]_vars

\* Each of the three logs holds one entry.
C24_Witness ==
    \A c \in Categories :
        /\ Len(ListAll(logs[c]).entries) = 1
        /\ CategoryOf(ListAll(logs[c]).entries[1]) = c

\* The clock value a timestamp was made from.
TimeOf(timestamp) == CHOOSE t \in 0..9 : ToISOString(t) = timestamp

NonIncreasing(entries) ==
    \A i \in 1..(Len(entries) - 1) :
        TimeOf(entries[i].timestamp) >= TimeOf(entries[i + 1].timestamp)

\* C26: whatever the interleaving of overlapping requests, the timestamps of
\* the entries a listing returns never increase from first to last: the
\* timestamp is taken and the line appended in one step, so the order of the
\* log is the order of the timestamps.
C26_TimestampsNonIncreasing ==
    \A c \in Categories :
        /\ NonIncreasing(ListAll(logs[c]).entries)
        /\ last.req.ep = ListRoute(c) => NonIncreasing(last.res.entries)

\* A listing whose first entry is later than its second, the first written
\* by the request that arrived before the writer of the second.
C26_Witness ==
    \E c \in {"edit", "variation"} :
        /\ last.req.ep = ListRoute(c)
        /\ Len(last.res.entries) >= 2
        /\ TimeOf(last.res.entries[1].timestamp)
              > TimeOf(last.res.entries[2].timestamp)
        /\ last.res.entries[1].originalImage = Filename(1, "image")
        /\ last.res.entries[2].originalImage = Filename(2, "image")

RECURSIVE ReadCsv(_, _, _, _, _, _)
ReadCsv(text, i, quoted, field, record, records) ==
    IF i > Len(text) THEN Append(records, Append(record, field))
    ELSE IF quoted
    THEN IF text[i] # QT
         THEN ReadCsv(text, i + 1, TRUE, Append(field, text[i]), record, records)
         ELSE IF i + 1 <= Len(text) /\ text[i + 1] = QT
         THEN ReadCsv(text, i + 2, TRUE, Append(field, QT), record, records)
         ELSE ReadCsv(text, i + 1, FALSE, field, record, records)
    ELSE CASE text[i] = QT -> ReadCsv(text, i + 1, TRUE, field, record, records)
           [] text[i] = "," ->
                ReadCsv(text, i + 1, FALSE, <<>>, Append(record, field), records)
           [] text[i] = CRLF ->
                ReadCsv(text, i + 1, FALSE, <<>>, <<>>,
                        Append(records, Append(record, field)))
           [] OTHER ->
                ReadCsv(text, i + 1, FALSE, Append(field, text[i]), record, records)

CsvRecordsOf(text) ==
    IF text = <<>> THEN <<>> ELSE ReadCsv(text, 1, FALSE, <<>>, <<>>, <<>>)

\* The non-blank lines of the exported content, in order.
NonBlankLines(content) == SelectSeq(SplitLines(content, 1, 1), TrimIsTruthy)

\* The one JSON text of a line, when the line holds exactly one.
OnlyText(line) ==
    LET texts == SelectSeq(line, LAMBDA t : t # CR)
    IN  IF Len(texts) = 1 THEN texts[1] ELSE Garbage

\* A well-formed line: an object whose prompt and completion are strings.
WellFormedExample(line) ==
    LET tok == OnlyText(line)
    IN  tok.k = "object" /\ tok.prompt.t = "string" /\ tok.completion.t = "string"

\* A malformed line: not the text of one JSON value.
MalformedExample(line) == OnlyText(line).k = "garbage"

\* C25: the CSV and the Excel exports have exactly one row per non-blank
\* line, in line order, after the header; the row of a well-formed line
\* holds its prompt and completion, the row of a malformed line holds
\* "Invalid JSON" twice; the JSONL and the plain-text exports are the
\* content itself.
C25_ExportPreservesPairs ==
    LET content == ExportSource(filePreview)
        lines == NonBlankLines(content)
        records == CsvRecordsOf(download.csv)
        sheet == download.sheet
    IN  /\ download.format \in {"jsonl", "txt"} => download.content = content
        /\ download.format = "csv" =>
              /\ Len(records) = (IF lines = <<>> THEN 0 ELSE Len(lines) + 1)
              /\ lines # <<>> => records[1] = << <<"prompt">>, <<"completion">> >>
              /\ \A i \in 1..Len(lines) :
                    /\ WellFormedExample(lines[i]) =>
                          records[i + 1] = <<OnlyText(lines[i]).prompt.chars,
                                             OnlyText(lines[i]).completion.chars>>
                    /\ MalformedExample(lines[i]) =>
                          records[i + 1] = <<InvalidJSON.chars, InvalidJSON.chars>>
        /\ download.format = "excel" =>
              /\ Len(sheet) = (IF lines = <<>> THEN 0 ELSE Len(lines) + 1)
              /\ \A i \in 1..Len(lines) :
                    /\ WellFormedExample(lines[i]) =>
                          sheet[i + 1] = <<OnlyText(lines[i]).prompt,
                                           OnlyText(lines[i]).completion>>
                    /\ MalformedExample(lines[i]) =>
                          sheet[i + 1] = <<InvalidJSON, InvalidJSON>>

\* A CSV export of a well-formed line whose prompt needs quoting, after a
\* malformed line.
C25_Witness ==
    /\ download.format = "csv"
    /\ LET lines == NonBlankLines(ExportSource(filePreview)) IN
       /\ Len(lines) = 2
       /\ MalformedExample(lines[1])
       /\ WellFormedExample(lines[2])
       /\ NeedsQuotes(OnlyText(lines[2]).prompt.chars)

\* The content a validate or upload started now would send.
CurrentContent == FormDataFile(fileUpload)

\* C28: whenever validationError is set, it is the answer for the content
\* that is current: a late answer never sets it for newer content.
C28_ErrorIsForCurrentContent ==
    ~fileUpload.validationError.isNull =>
        fileUpload.validationError.sent = CurrentContent

\* C29: when the user has edited the content in the editor and presses
\* Cancel, validateFile and uploadFile afterwards send the original file
\* content.
C29_CancelDiscardsEdits ==
    [][(\E changeEvent \in BOOLEAN : Cancel(changeEvent))
          /\ ~fileUpload.editedContent.isNull
        => FormDataFile(fileUpload)' = fileUpload.file.content]_vars

\* The list in the named state got longer and no error is shown.
Grew(state) ==
    /\ imageGenerator'[state].defined
    /\ Len(imageGenerator'[state].items) > Len(imageGenerator[state].items)
    /\ imageGenerator'.error = ""

\* C30: when the upstream call succeeds, handleGenerate, handleEdit and
\* handleCreateVariation end with an entry added to generatedImages,
\* imageEdits or variations and with no error, and fetchVariations sets
\* variations to the list that GET /api/image-variations returns.
C30_ActionsReachTheirRoutes ==
    /\ [][GenerateAnswered(TRUE) => Grew("generatedImages")]_vars
    /\ [][EditAnswered(TRUE) => Grew("imageEdits")]_vars
    /\ [][VariationAnswered(TRUE) => Grew("variations")]_vars
    /\ [][(\E f \in Fetches : f.state = "variations" /\ FetchAnswered(f))
            /\ ListAll(logs["variation"]).status = 200
          => imageGenerator'.variations = List(ListAll(logs["variation"]).entries)]_vars

====
